---- MODULE Spec2Model ----
(***************************************************************************)
(* Model of src/gitobject.py: the git object layer (GitInfo, GitObject,    *)
(* GitBlobObject, GitTreeObject, GitCommitObject).                         *)
(*                                                                         *)
(* Bytes and str values are sequences of character codes (0..255).  An     *)
(* attribute that may be None is a sequence of at most one element:       *)
(* None == <<>>, a set attribute x is <<x>>.                               *)
(***************************************************************************)
EXTENDS Integers, Sequences, FiniteSets, TLC

VARIABLES rec, ws, dirs, files, op, arg, err, built

vars == <<rec, ws, dirs, files, op, arg, err, built>>

\* ------------------------------------------------------------------ bounds
\* longest content handed to GitBlobObject.from_workspace
MaxLen == 3
\* width of the digest in bytes (hashlib.sha1 yields 20; the model scales it)
DigestLen == 2
\* most object directories the store may hold
MaxStored == 2

\* ------------------------------------------------------------- characters
NUL == 0
LF == 10
CR == 13
SP == 32

None == <<>>
Some(x) == <<x>>
IsSet(o) == Len(o) = 1
Val(o) == o[1]

IsDigit(c) == c >= 48 /\ c <= 57

str_blob == <<98, 108, 111, 98>>
str_tree == <<116, 114, 101, 101>>
str_commit == <<99, 111, 109, 109, 105, 116>>
str_parent == <<112, 97, 114, 101, 110, 116>>
str_author == <<97, 117, 116, 104, 111, 114>>
str_committer == <<99, 111, 109, 109, 105, 116, 116, 101, 114>>
mode_dir == <<52, 48, 48, 48, 48>>
mode_file == <<49, 48, 48, 54, 52, 52>>

\* str.encode("ascii") / bytes.decode("ascii") of the type tokens
TypeBytes(t) ==
  CASE t = "blob" -> str_blob
    [] t = "tree" -> str_tree
    [] t = "commit" -> str_commit

\* slices: s[a:b] of Python with 0 <= a, kept inside the sequence
Slice(s, a, b) == SubSeq(s, a + 1, IF b > Len(s) THEN Len(s) ELSE b)
From(s, a) == SubSeq(s, a + 1, Len(s))
StartsWith(s, p) == Len(s) >= Len(p) /\ SubSeq(s, 1, Len(p)) = p

RECURSIVE ConcatN(_, _)
ConcatN(ss, n) == IF n = 0 THEN <<>> ELSE ConcatN(ss, n - 1) \o ss[n]

\* b"".join(list)
Concat(ss) == ConcatN(ss, Len(ss))

\* ---------------------------------------------------------- str(int), int(str)
RECURSIVE IntToStr(_)
IntToStr(n) ==
  IF n < 10 THEN <<48 + n>> ELSE IntToStr(n \div 10) \o <<48 + (n % 10)>>

RECURSIVE StrToInt(_)
StrToInt(s) ==
  IF s = <<>> THEN 0
  ELSE StrToInt(SubSeq(s, 1, Len(s) - 1)) * 10 + (s[Len(s)] - 48)

\* ------------------------------------------------------------------ sha1
RECURSIVE Pow256(_)
Pow256(k) == IF k = 0 THEN 1 ELSE 256 * Pow256(k - 1)

HashMod == Pow256(DigestLen)

\* the i-th byte's share of the digest
HashTerm(s, i) == ((s[i] + 1) * (i * i + 3 * i + 7)) % HashMod

RECURSIVE HashSum(_, _, _)
HashSum(s, lo, hi) ==
  IF lo > hi THEN 0
  ELSE IF lo = hi THEN HashTerm(s, lo)
  ELSE LET mid == (lo + hi) \div 2
       IN (HashSum(s, lo, mid) + HashSum(s, mid + 1, hi)) % HashMod

\* hashlib.sha1(b).digest(): a fixed-width digest, a function of the bytes
\* and of their positions
Sha1Digest(b) ==
  LET h == (HashSum(b, 1, Len(b)) + 7919 * Len(b) + 7) % HashMod
  IN [i \in 1..DigestLen |-> (h \div Pow256(DigestLen - i)) % 256]

HexChar(n) == IF n < 10 THEN 48 + n ELSE 87 + n
HexVal(c) == IF IsDigit(c) THEN c - 48 ELSE c - 87

RECURSIVE ToHex(_)
\* bytes.hex()
ToHex(b) ==
  IF b = <<>> THEN <<>>
  ELSE <<HexChar(b[1] \div 16), HexChar(b[1] % 16)>> \o ToHex(Tail(b))

RECURSIVE FromHex(_)
\* bytes.fromhex(str) on a lowercase hex string of even length
FromHex(h) ==
  IF Len(h) < 2 THEN <<>>
  ELSE <<HexVal(h[1]) * 16 + HexVal(h[2])>> \o FromHex(From(h, 2))

\* hashlib.sha1(b).hexdigest()
Sha1Hex(b) == ToHex(Sha1Digest(b))

\* ------------------------------------------------------------------ zlib
ZlibMagic == 120
\* zlib.compress: a lossless stream that differs from the raw bytes
Compress(b) == <<ZlibMagic>> \o b
CanDecompress(c) == Len(c) >= 1 /\ c[1] = ZlibMagic
Decompress(c) == Tail(c)

\* ------------------------------------------------------------ GitObject
Types == {"blob", "tree", "commit"}

\* the header "<type> <len>\x00" built at lines 80-81
Header(type, len) == TypeBytes(type) \o <<SP>> \o IntToStr(len) \o <<NUL>>

\* GitObject.__init__ and the subclasses' __init__: every attribute None but type
NewRecord(cls) ==
  [cls |-> cls, type |-> cls,
   body_content |-> None, sha1 |-> None, full_content |-> None, len |-> None,
   mod_filename_sha1_list |-> None,
   tree_sha1 |-> None, parents_sha1_list |-> None,
   author |-> None, author_email |-> None, author_time |-> None,
   committer |-> None, committer_email |-> None, committer_time |-> None,
   message |-> None]

\* GitObject.set_general_from_body_content on a record whose body_content is set
set_general_from_body_content(r) ==
  LET n == Len(Val(r.body_content))
      full == Header(r.type, n) \o Val(r.body_content)
  IN [r EXCEPT !.len = Some(n), !.full_content = Some(full),
               !.sha1 = Some(Sha1Hex(full))]

\* GitInfo.sha1_to_obj_filename: (directory, file) below objects/
sha1_to_obj_filename(sha1) == <<Slice(sha1, 0, 2), From(sha1, 2)>>

\* ------------------------------------------- the header pattern of from_obj
\* number of leading digits of s
RECURSIVE DigitRun(_)
DigitRun(s) ==
  IF s # <<>> /\ IsDigit(s[1]) THEN 1 + DigitRun(Tail(s)) ELSE 0

\* re.search(b"^(blob|tree|commit) (\d+)\x00([\x00-\xff]*)$", full): the three
\* groups, or ok = FALSE when there is no match.  The last group is greedy over
\* every byte, so it is all that follows the NUL.
HeaderMatch(full) ==
  LET kinds == {t \in Types : StartsWith(full, TypeBytes(t) \o <<SP>>)}
  IN IF kinds = {} THEN [ok |-> FALSE]
     ELSE LET t == CHOOSE k \in kinds : TRUE
              rest == From(full, Len(TypeBytes(t)) + 1)
              d == DigitRun(rest)
          IN IF d >= 1 /\ Len(rest) > d /\ rest[d + 1] = NUL
             THEN [ok |-> TRUE, g1 |-> t, g2 |-> SubSeq(rest, 1, d),
                   g3 |-> From(rest, d + 1)]
             ELSE [ok |-> FALSE]

\* ------------------------- the entry pattern of GitTreeObject (line 214)
\* first index >= i of byte c in s, or 0
RECURSIVE IndexFrom(_, _, _)
IndexFrom(s, c, i) ==
  IF i > Len(s) THEN 0 ELSE IF s[i] = c THEN i ELSE IndexFrom(s, c, i + 1)

\* a match of b"(\d+?) (.+?)\x00([\x00-\xff]{20})" starting exactly at index i:
\* digits up to a space, then at least one byte other than LF up to the first
\* later NUL, then DigestLen bytes of any value
EntryMatchAt(s, i) ==
  LET d == DigitRun(From(s, i - 1))
      p == i + d + 1
      z == IndexFrom(s, NUL, p + 1)
  IN IF d >= 1 /\ i + d <= Len(s) /\ s[i + d] = SP
        /\ z # 0 /\ IndexFrom(SubSeq(s, p, z - 1), LF, 1) = 0
        /\ z + DigestLen <= Len(s)
     THEN [ok |-> TRUE,
           entry |-> <<SubSeq(s, i, i + d - 1), SubSeq(s, p, z - 1),
                       SubSeq(s, z + 1, z + DigestLen)>>,
           end |-> z + DigestLen]
     ELSE [ok |-> FALSE]

RECURSIVE FindAllFrom(_, _)
\* re.findall: leftmost matches, scanning on after each one
FindAllFrom(s, i) ==
  IF i > Len(s) THEN <<>>
  ELSE LET m == EntryMatchAt(s, i)
       IN IF m.ok THEN <<m.entry>> \o FindAllFrom(s, m.end + 1)
          ELSE FindAllFrom(s, i + 1)

FindAll(s) == FindAllFrom(s, 1)

\* GitTreeObject.set_unique_from_body_content: the decoded list, ok = FALSE for
\* the AssertionError of line 217
TreeUnique(body) ==
  LET lines_list == FindAll(body)
  IN IF Len(lines_list) = 0 THEN [ok |-> FALSE]
     ELSE [ok |-> TRUE,
           list |-> [k \in 1..Len(lines_list) |->
                       <<lines_list[k][1], lines_list[k][2], ToHex(lines_list[k][3])>>]]

\* -------------------------------------------------------------- GitInfo
Dot == <<46>>
DotDot == <<46, 46>>
name_git == <<103, 105, 116>>
name_gitignore == <<46, 103, 105, 116, 105, 103, 110, 111, 114, 101>>
name_config == <<99, 111, 110, 102, 105, 103>>
name_a == <<97>>
name_d == <<100>>
name_e == <<101>>
name_w == <<119>>

\* A path is the sequence of its components; os.path.join appends components.
workspace_path == <<name_w>>
root_path == Append(workspace_path, name_git)
git_ignore_filename == Append(workspace_path, name_gitignore)
filtered_list == <<root_path, git_ignore_filename>>
\* [user] name and email of git/config
author == <<65>>
author_email == <<97, 64, 120>>
committer == author
committer_email == author_email

RECURSIVE NormAcc(_, _)
NormAcc(path, acc) ==
  IF path = <<>> THEN acc
  ELSE IF Head(path) = Dot THEN NormAcc(Tail(path), acc)
  ELSE IF Head(path) = DotDot
       THEN NormAcc(Tail(path),
                    IF acc = <<>> THEN acc ELSE SubSeq(acc, 1, Len(acc) - 1))
  ELSE NormAcc(Tail(path), Append(acc, Head(path)))

\* os.path.normpath(os.path.normcase(os.path.abspath(path))) on a POSIX system
NormPath(path) == NormAcc(path, <<>>)

is_path_equal(path_a, path_b) == NormPath(path_a) = NormPath(path_b)

filename_from_workspace_to_full(filename_from_workspace) ==
  workspace_path \o filename_from_workspace

\* a return in the loop body that answers for the first filter alone
is_filtered_first_only(filename_from_workspace) ==
  is_path_equal(filename_from_workspace_to_full(filename_from_workspace),
                filtered_list[1])

\* GitInfo.is_filtered: True, or None (FALSE here) when the loop ends
is_filtered(filename_from_workspace) ==
  \E k \in 1..Len(filtered_list) :
    is_path_equal(filename_from_workspace_to_full(filename_from_workspace),
                  filtered_list[k])

\* ------------------------------------------------------- the workspace
\* The file system below the workspace: a function from the normalised path
\* of a node, relative to the workspace, to the node.
Dir(listing) == [isdir |-> TRUE, listing |-> listing, content |-> <<>>]
File(content) == [isdir |-> FALSE, listing |-> <<>>, content |-> content]

text_crlf == <<97, CR, LF, 98>>
text_crcrlf == <<CR, CR, LF>>
text_x == <<120>>

GitDirNodes ==
  (<<name_git>> :> Dir(<<name_config>>))
    @@ (<<name_git, name_config>> :> File(text_x))

WsNested(order) ==
  (<<>> :> Dir(order))
    @@ GitDirNodes
    @@ (<<name_gitignore>> :> File(text_x))
    @@ (<<name_a>> :> File(text_crlf))
    @@ (<<name_d>> :> Dir(<<name_git, name_e, name_gitignore>>))
    @@ (<<name_d, name_git>> :> File(text_crcrlf))
    @@ (<<name_d, name_e>> :> Dir(<<>>))
    @@ (<<name_d, name_gitignore>> :> File(<<>>))

WsBare ==
  (<<>> :> Dir(<<name_git, name_gitignore>>))
    @@ GitDirNodes
    @@ (<<name_gitignore>> :> File(text_x))

Workspaces ==
  { WsNested(<<name_git, name_a, name_gitignore, name_d>>),
    WsNested(<<name_d, name_gitignore, name_a, name_git>>),
    WsBare }

\* the node a full path names: the kernel walks the components one by one,
\* so every proper prefix has to name a directory
FsKey(full) == From(NormPath(full), Len(workspace_path))
FsNode(fsys, full) ==
  StartsWith(NormPath(full), workspace_path) /\ FsKey(full) \in DOMAIN fsys
FsExists(fsys, full) ==
  \A k \in 1..Len(full) :
    /\ FsNode(fsys, SubSeq(full, 1, k))
    /\ k < Len(full) => fsys[FsKey(SubSeq(full, 1, k))].isdir
FsIsDir(fsys, full) == FsExists(fsys, full) /\ fsys[FsKey(full)].isdir
FsIsFile(fsys, full) == FsExists(fsys, full) /\ ~fsys[FsKey(full)].isdir

\* ------------------------------------------------------ GitBlobObject
RECURSIVE CrlfToLf(_)
\* bytes.replace(b"\r\n", b"\n"): one pass, left to right, occurrences that
\* do not overlap
CrlfToLf(b) ==
  IF b = <<>> THEN <<>>
  ELSE IF Len(b) >= 2 /\ b[1] = CR /\ b[2] = LF
       THEN <<LF>> \o CrlfToLf(From(b, 2))
  ELSE <<b[1]>> \o CrlfToLf(Tail(b))

RECURSIVE LfCrToLf(_)
\* the pattern written with its two bytes swapped: replace(b"\n\r", b"\n")
LfCrToLf(b) ==
  IF b = <<>> THEN <<>>
  ELSE IF Len(b) >= 2 /\ b[1] = LF /\ b[2] = CR
       THEN <<LF>> \o LfCrToLf(From(b, 2))
  ELSE <<b[1]>> \o LfCrToLf(Tail(b))

\* line 150 with the swapped pattern
NormalizeSwapped(content) == LfCrToLf(content)

\* line 150: content.replace(b"\r\n", b"\n")
Normalize(content) == CrlfToLf(content)

\* GitBlobObject.from_workspace, lines 150-152, on content already read
BlobFromContent(r, content) ==
  set_general_from_body_content(
    [r EXCEPT !.body_content = Some(Normalize(content)), !.type = "blob"])

\* ------------------------------------------------------ GitTreeObject
\* line 197: b"%s %s\x00%s" % (mod, filename, bytes.fromhex(sha1))
EntryBytes(e) == e[1] \o <<SP>> \o e[2] \o <<NUL>> \o FromHex(e[3])

\* lines 194-200 of GitTreeObject.from_workspace
TreeFromList(r, list) ==
  set_general_from_body_content(
    [r EXCEPT !.mod_filename_sha1_list = Some(list),
              !.body_content =
                 Some(Concat([k \in 1..Len(list) |-> EntryBytes(list[k])])),
              !.type = "tree"])

\* what one object built during a scan is: the path it was built from, its
\* type, its sha1 and, for a tree, its entry list and the listing scanned
BuiltBlob(filename, r) ==
  [path |-> filename, type |-> "blob", sha1 |-> Val(r.sha1),
   list |-> <<>>, listing |-> <<>>]
BuiltTree(dirname, r, listing) ==
  [path |-> dirname, type |-> "tree", sha1 |-> Val(r.sha1),
   list |-> Val(r.mod_filename_sha1_list), listing |-> listing]

RECURSIVE ScanDir(_, _, _)
RECURSIVE ScanEntries(_, _, _, _)

\* the loop of lines 179-192 from the k-th name of the listing on: the
\* entries appended and, in order of construction, the objects built
ScanEntries(fsys, dirname, listing, k) ==
  IF k > Len(listing) THEN [list |-> <<>>, log |-> <<>>]
  ELSE
    LET fi == listing[k]
        filename == Append(dirname, fi)
        full == filename_from_workspace_to_full(filename)
        rest == ScanEntries(fsys, dirname, listing, k + 1)
    IN IF is_filtered(filename) THEN rest
       ELSE IF FsIsDir(fsys, full)
       THEN LET sub == ScanDir(fsys, NewRecord("tree"), filename)
            IN [list |-> <<<<mode_dir, fi, Val(sub.rec.sha1)>>>> \o rest.list,
                log |-> sub.log \o rest.log]
       ELSE LET gbo == BlobFromContent(NewRecord("blob"), fsys[FsKey(full)].content)
            IN [list |-> <<<<mode_file, fi, Val(gbo.sha1)>>>> \o rest.list,
                log |-> <<BuiltBlob(filename, gbo)>> \o rest.log]

\* GitTreeObject.from_workspace(dirname_from_workspace = dirname) on record r,
\* for a dirname that names a directory: the record and the objects built
ScanDir(fsys, r, dirname) ==
  LET listing == fsys[FsKey(filename_from_workspace_to_full(dirname))].listing
      sc == ScanEntries(fsys, dirname, listing, 1)
      t == TreeFromList(r, sc.list)
  IN [rec |-> t, log |-> Append(sc.log, BuiltTree(dirname, t, listing))]

\* ---------------------------------------------------- GitCommitObject
\* lines 254-255 with the parents taken last to first
ParentLinesReversed(parents) ==
  Concat([k \in 1..Len(parents) |->
            str_parent \o <<SP>> \o parents[Len(parents) + 1 - k] \o <<LF>>])

\* lines 254-255: one b"parent %s\n" per parent, in the order of the list
ParentLines(parents) ==
  Concat([k \in 1..Len(parents) |-> str_parent \o <<SP>> \o parents[k] \o <<LF>>])

\* GitCommitObject.from_workspace, lines 243-266, given the tree's sha1, the
\* clock reading and the zone of time.strftime('%z')
CommitFrom(r, tree_sha1, parents, commit_message, now, zone) ==
  LET a_time == IntToStr(now) \o <<SP>> \o zone
      \* line 250: self.committer_time = self.author_time
      c_time == a_time
      \* line 246 sets the committer from git_info.author
      c_name == author
      body ==
        str_tree \o <<SP>> \o tree_sha1 \o <<LF>>
        \o ParentLines(parents)
        \o str_author \o <<SP>> \o author \o <<SP, 60>> \o author_email
           \o <<62, SP>> \o a_time \o <<LF>>
        \o str_committer \o <<SP>> \o c_name \o <<SP, 60>> \o committer_email
           \o <<62, SP>> \o c_time \o <<LF>>
        \o <<LF>> \o commit_message \o <<LF>>
  IN set_general_from_body_content(
       [r EXCEPT !.tree_sha1 = Some(tree_sha1),
                 !.parents_sha1_list = Some(parents),
                 !.author = Some(author), !.committer = Some(c_name),
                 !.author_email = Some(author_email),
                 !.author_time = Some(a_time),
                 !.committer_email = Some(committer_email),
                 !.committer_time = Some(c_time),
                 !.message = Some(commit_message),
                 !.body_content = Some(body)])

\* ------------------------------------------------------ the object store
\* dirs: the directories below objects/; files: path -> bytes of the file
StorePath(sha1) == sha1_to_obj_filename(sha1)
Stored(sha1) == StorePath(sha1) \in DOMAIN files

\* GitObject.from_obj on record r: the record afterwards and the error raised
from_obj(r, content, filename_sha1) ==
  IF IsSet(content) = IsSet(filename_sha1)
  THEN [rec |-> r, err |-> "args"]
  ELSE IF ~IsSet(content) /\ ~Stored(Val(filename_sha1))
  THEN [rec |-> r, err |-> "io"]
  ELSE
    LET data == IF IsSet(content) THEN Val(content)
                ELSE files[StorePath(Val(filename_sha1))]
    IN IF ~CanDecompress(data) THEN [rec |-> r, err |-> "zlib"]
       ELSE
         LET full == Decompress(data)
             r1 == [r EXCEPT !.full_content = Some(full)]
             match == HeaderMatch(full)
         IN IF ~match.ok THEN [rec |-> r1, err |-> "format"]
            ELSE IF r1.type # match.g1 THEN [rec |-> r1, err |-> "type"]
            ELSE
              LET r2 == [r1 EXCEPT !.type = match.g1,
                                   !.len = Some(StrToInt(match.g2)),
                                   !.body_content = Some(match.g3),
                                   !.sha1 = Some(Sha1Hex(full))]
              IN IF IsSet(filename_sha1) /\ Val(filename_sha1) # Val(r2.sha1)
                 THEN [rec |-> r2, err |-> "integrity"]
                 ELSE IF r2.cls = "tree"
                 THEN LET u == TreeUnique(match.g3)
                      IN IF u.ok
                         THEN [rec |-> [r2 EXCEPT !.mod_filename_sha1_list = Some(u.list)],
                               err |-> "none"]
                         ELSE [rec |-> r2, err |-> "tree_format"]
                 ELSE [rec |-> r2, err |-> "none"]

\* ------------------------------------------------------------- inputs
RECURSIVE SeqsUpTo(_, _)
SeqsUpTo(S, n) ==
  IF n = 0 THEN {<<>>}
  ELSE LET shorter == SeqsUpTo(S, n - 1)
       IN shorter \cup {Append(q, c) : q \in shorter, c \in S}

Contents == SeqsUpTo({CR, LF, 97}, MaxLen)
StoreContents == {<<>>, text_crlf, text_x}

BlobFilenames == {<<name_a>>, <<name_d, name_git>>, <<name_d>>, <<name_config>>}
Dirnames == {<<Dot>>, <<name_d>>, <<name_d, DotDot>>, <<name_a>>}

EmptyBlobSha1 == Sha1Hex(Header("blob", 0))
EmptyTreeSha1 == Sha1Hex(Header("tree", 0))
entry_a == <<mode_file, name_a, EmptyBlobSha1>>
entry_d == <<mode_dir, name_d, EmptyTreeSha1>>
entry_nl == <<mode_file, <<97, LF, 98>>, EmptyBlobSha1>>
EntryLists ==
  {<<>>, <<entry_a>>, <<entry_a, entry_d>>, <<entry_d, entry_a>>, <<entry_nl>>}

ParentLists ==
  {<<EmptyBlobSha1, EmptyTreeSha1>>, <<EmptyTreeSha1, EmptyBlobSha1>>}
Messages == {<<109, LF, 110>>}
Times == {9, 10}
Zones == {<<43, 48, 56, 48, 48>>}

\* decompressed object files handed to from_obj, well formed or not
RawObjects ==
  { Header("blob", 0),
    Header("blob", 5) \o <<97, 98>>,
    Header("tree", 0),
    Header("commit", 0),
    str_blob \o <<NUL>>,
    <<116, 97, 103, SP, 48, NUL>> }
ObjContents == {Compress(x) : x \in RawObjects} \cup {<<97>>}

NoArg ==
  [content |-> None, filename |-> None, list |-> None, dirname |-> None,
   parents |-> None, message |-> None, now |-> None, zone |-> None,
   filename_sha1 |-> None]

\* line 242: GitTreeObject(self.git_info).from_workspace(dirname_from_workspace=".")
\* in each workspace
RootTree == [w \in Workspaces |-> ScanDir(w, NewRecord("tree"), <<Dot>>)]

\* ------------------------------------------------------------ actions
\* op, arg, err record the last call, its arguments and the error it raised;
\* built records the objects the last scan constructed, in order.
BuildOps == {"blob_from_workspace", "tree_from_workspace", "commit_from_workspace"}

Done(r, o, a, e, b) ==
  /\ rec' = r
  /\ op' = o
  /\ arg' = a
  /\ err' = e
  /\ built' = b

\* GitBlobObject(git_info), GitTreeObject(git_info), GitCommitObject(git_info)
New(cls) ==
  /\ Done(NewRecord(cls), "new", NoArg, "none", <<>>)
  /\ UNCHANGED <<ws, dirs, files>>

\* GitBlobObject.from_workspace(content, filename_from_workspace)
BlobFromWorkspace(content, filename) ==
  /\ rec.cls = "blob"
  /\ LET a == [NoArg EXCEPT !.content = content, !.filename = filename]
         full == filename_from_workspace_to_full(Val(filename))
     IN IF IsSet(content) = IsSet(filename)
        THEN Done(rec, "blob_from_workspace", a, "args", <<>>)
        ELSE IF IsSet(content)
        THEN Done(BlobFromContent(rec, Val(content)),
                  "blob_from_workspace", a, "none", <<>>)
        ELSE IF ~FsIsFile(ws, full)
        THEN Done(rec, "blob_from_workspace", a, "io", <<>>)
        ELSE Done(BlobFromContent(rec, ws[FsKey(full)].content),
                  "blob_from_workspace", a, "none", <<>>)
  /\ UNCHANGED <<ws, dirs, files>>

\* GitTreeObject.from_workspace(mod_filename_sha1_list, dirname_from_workspace)
TreeFromWorkspace(list, dirname) ==
  /\ rec.cls = "tree"
  /\ LET a == [NoArg EXCEPT !.list = list, !.dirname = dirname]
     IN IF IsSet(list) = IsSet(dirname)
        THEN Done(rec, "tree_from_workspace", a, "args", <<>>)
        ELSE IF IsSet(list)
        THEN Done(TreeFromList(rec, Val(list)),
                  "tree_from_workspace", a, "none", <<>>)
        ELSE IF ~FsIsDir(ws, filename_from_workspace_to_full(Val(dirname)))
        THEN Done(rec, "tree_from_workspace", a, "io", <<>>)
        ELSE LET sc == ScanDir(ws, rec, Val(dirname))
             IN Done(sc.rec, "tree_from_workspace", a, "none", sc.log)
  /\ UNCHANGED <<ws, dirs, files>>

\* GitCommitObject.from_workspace(parents_sha1_list, commit_message) at clock
\* reading now in zone
CommitFromWorkspace(parents, message, now, zone) ==
  /\ rec.cls = "commit"
  /\ LET a == [NoArg EXCEPT !.parents = parents, !.message = message,
                            !.now = Some(now), !.zone = Some(zone)]
         gto == RootTree[ws]
     IN Done(CommitFrom(rec, Val(gto.rec.sha1),
                        IF IsSet(parents) THEN Val(parents) ELSE <<>>,
                        IF IsSet(message) THEN Val(message) ELSE <<>>,
                        now, zone),
             "commit_from_workspace", a, "none", gto.log)
  /\ UNCHANGED <<ws, dirs, files>>

\* GitObject.from_obj(content, filename_sha1)
FromObj(content, filename_sha1) ==
  /\ LET a == [NoArg EXCEPT !.content = content, !.filename_sha1 = filename_sha1]
         res == from_obj(rec, content, filename_sha1)
     IN Done(res.rec, "from_obj", a, res.err, <<>>)
  /\ UNCHANGED <<ws, dirs, files>>

\* GitObject.save_obj(): os.makedirs without exist_ok, then the write
SaveObj ==
  /\ IF ~IsSet(rec.sha1)
     THEN /\ Done(rec, "save_obj", NoArg, "type_error", <<>>)
          /\ UNCHANGED <<dirs, files>>
     ELSE LET path == sha1_to_obj_filename(Val(rec.sha1))
          IN IF path[1] \in dirs
             THEN /\ Done(rec, "save_obj", NoArg, "exists", <<>>)
                  /\ UNCHANGED <<dirs, files>>
             ELSE /\ Cardinality(dirs) < MaxStored
                  /\ Done(rec, "save_obj", NoArg, "none", <<>>)
                  /\ dirs' = dirs \cup {path[1]}
                  /\ files' = (path :> Compress(Val(rec.full_content))) @@ files
  /\ UNCHANGED ws

\* ------------------------------------------------------- specifications
BlobArgs ==
  {<<Some(c), None>> : c \in Contents}
    \cup {<<None, Some(f)>> : f \in BlobFilenames}
    \cup {<<None, None>>, <<Some(<<>>), Some(<<name_a>>)>>}
TreeArgs ==
  {<<Some(l), None>> : l \in EntryLists}
    \cup {<<None, Some(d)>> : d \in Dirnames}
    \cup {<<None, None>>, <<Some(<<>>), Some(<<Dot>>)>>}
\* the object files from_obj is given: the fixed ones and, when the record
\* holds canonical bytes, those bytes compressed
FromObjContents ==
  ObjContents \cup
    (IF IsSet(rec.full_content) THEN {Compress(Val(rec.full_content))} ELSE {})

Init ==
  /\ rec \in {NewRecord(c) : c \in Types}
  /\ ws \in Workspaces
  /\ dirs = {}
  /\ files = <<>>
  /\ op = "init"
  /\ arg = NoArg
  /\ err = "none"
  /\ built = <<>>

NewAny == \E c \in Types : New(c)
BlobBuild == \E a \in BlobArgs : BlobFromWorkspace(a[1], a[2])
TreeBuild == \E a \in TreeArgs : TreeFromWorkspace(a[1], a[2])
CommitBuild ==
  \E p \in {None} \cup {Some(x) : x \in ParentLists},
     m \in {None} \cup {Some(x) : x \in Messages},
     t \in Times, z \in Zones : CommitFromWorkspace(p, m, t, z)
Decode ==
  \/ \E c \in FromObjContents : FromObj(Some(c), None)
  \/ FromObj(None, None)

Next == NewAny \/ BlobBuild \/ TreeBuild \/ CommitBuild \/ Decode

Spec == Init /\ [][Next]_vars

\* --------------------------------------- the specification with the store
\* An object directory found on disk at start-up: none, one sound object, or
\* one object file whose bytes are not those its name was computed from.
InitialStores ==
  { [dirs |-> {}, files |-> <<>>],
    [dirs |-> {StorePath(EmptyBlobSha1)[1]},
     files |-> StorePath(EmptyBlobSha1) :> Compress(Header("blob", 0))],
    [dirs |-> {StorePath(EmptyBlobSha1)[1]},
     files |-> StorePath(EmptyBlobSha1) :> Compress(Header("blob", 1) \o <<97>>)] }

InitStore ==
  /\ rec \in {NewRecord(c) : c \in Types}
  /\ ws \in Workspaces
  /\ \E st \in InitialStores : dirs = st.dirs /\ files = st.files
  /\ op = "init"
  /\ arg = NoArg
  /\ err = "none"
  /\ built = <<>>

StoreBlobBuild == \E c \in StoreContents : BlobFromWorkspace(Some(c), None)
StoreTreeBuild == \E d \in Dirnames : TreeFromWorkspace(None, Some(d))
\* the names from_obj is asked for: the record's own and two well-known ones
Load ==
  \E h \in {EmptyBlobSha1, EmptyTreeSha1}
           \cup (IF IsSet(rec.sha1) THEN {Val(rec.sha1)} ELSE {}) :
    FromObj(None, Some(h))

NextStore == NewAny \/ StoreBlobBuild \/ StoreTreeBuild \/ SaveObj \/ Load

SpecStore == InitStore /\ [][NextStore]_vars

\* ---------------------------------------------------------- properties
HasCrlf(b) == \E i \in 1..(Len(b) - 1) : b[i] = CR /\ b[i + 1] = LF
HasCrCrlf(b) ==
  \E i \in 1..(Len(b) - 2) : b[i] = CR /\ b[i + 1] = CR /\ b[i + 2] = LF

\* the bytes the last successful GitBlobObject.from_workspace call normalised
BlobInput ==
  IF IsSet(arg.content) THEN Val(arg.content)
  ELSE ws[FsKey(filename_from_workspace_to_full(Val(arg.filename)))].content

BlobBuilt == op = "blob_from_workspace" /\ err = "none"

\* C1: a record built by from_workspace and then decoded by from_obj from its
\* own canonical bytes decodes without error to the same record: the same
\* type, body, length, canonical bytes, sha1 and kind-specific fields.
C1_RoundTrip ==
  [][(/\ op \in BuildOps
      /\ err = "none"
      /\ op' = "from_obj"
      /\ arg'.content = Some(Compress(Val(rec.full_content))))
     => (err' = "none" /\ rec' = rec)]_vars

\* C2: a from_obj call that fails with the integrity error leaves
\* full_content, type, len, body_content and sha1 as they were before the call.
C2_IntegrityRejection ==
  [][(op' = "from_obj" /\ err' = "integrity")
     => (/\ rec'.full_content = rec.full_content
         /\ rec'.type = rec.type
         /\ rec'.len = rec.len
         /\ rec'.body_content = rec.body_content
         /\ rec'.sha1 = rec.sha1)]_vars

\* C3: save_obj called again right after a save_obj that succeeded, on the
\* same record, succeeds and leaves the object store as it was.
C3_PutIdempotent ==
  [][(op = "save_obj" /\ err = "none" /\ op' = "save_obj")
     => (err' = "none" /\ files' = files /\ dirs' = dirs)]_vars

\* C4: when a directory scan of the Tree Builder has finished, every child
\* sha1 of the tree's entry list and the tree's own sha1 are in the store.
C4_NoDanglingReferences ==
  (op = "tree_from_workspace" /\ IsSet(arg.dirname) /\ err = "none")
    => /\ \A k \in 1..Len(Val(rec.mod_filename_sha1_list)) :
            Stored(Val(rec.mod_filename_sha1_list)[k][3])
       /\ Stored(Val(rec.sha1))

\* C5 as stated: the body GitBlobObject.from_workspace builds never holds a
\* CR LF pair, whatever the input.
C5_NeverCrlf == BlobBuilt => ~HasCrlf(Val(rec.body_content))

\* C5 as amended: for an input with no CR directly before a CR LF pair the
\* body holds no CR LF pair and normalising it again changes nothing; for
\* every input the sha1 is the hash of the header and the normalised body.
C5_NoCrlfUnlessCrCrlf ==
  BlobBuilt =>
    LET body == Val(rec.body_content)
    IN /\ ~HasCrCrlf(BlobInput) => (~HasCrlf(body) /\ CrlfToLf(body) = body)
       /\ rec.sha1 = Some(Sha1Hex(str_blob \o <<SP>> \o IntToStr(Len(body))
                                   \o <<NUL>> \o body))

\* C5's case: an input holding a CR LF pair, and no CR before one, was built
C5_Witness == BlobBuilt /\ HasCrlf(BlobInput) /\ ~HasCrCrlf(BlobInput)

\* C6: whenever sha1 is set it is the hash of full_content, and full_content
\* is "<type> <len>\0" followed by body_content.
C6_OidInvariant ==
  IsSet(rec.sha1) =>
    /\ rec.sha1 = Some(Sha1Hex(Val(rec.full_content)))
    /\ IsSet(rec.len) /\ IsSet(rec.body_content)
    /\ rec.full_content =
         Some(Header(rec.type, Val(rec.len)) \o Val(rec.body_content))

\* the trees a scan built, at every depth
ScanFinished ==
  \/ op = "tree_from_workspace" /\ IsSet(arg.dirname) /\ err = "none"
  \/ op = "commit_from_workspace" /\ err = "none"
BuiltTrees == {k \in 1..Len(built) : built[k].type = "tree"}

\* <workspace>/git and <workspace>/.gitignore, whatever way the path is spelt
Excluded(path) ==
  NormPath(<<name_w>> \o path) \in
    {<<name_w, name_git>>, <<name_w, name_gitignore>>}

\* C7: in every tree a scan builds, at every depth, the entry names are the
\* names of the listing that are not excluded, once each and in listing
\* order, and every subdirectory entry is the tree built from that directory.
C7_Exclusion ==
  ScanFinished =>
    \A k \in BuiltTrees :
      LET t == built[k]
          Kept(n) == ~Excluded(Append(t.path, n))
      IN /\ [j \in 1..Len(t.list) |-> t.list[j][2]] = SelectSeq(t.listing, Kept)
         /\ \A j \in 1..Len(t.list) :
              t.list[j][1] = mode_dir =>
                \E m \in BuiltTrees :
                  /\ m < k
                  /\ built[m].path = Append(t.path, t.list[j][2])
                  /\ built[m].sha1 = t.list[j][3]

\* C7's case: a scan of the workspace root met the metadata directory and the
\* ignore file, left them out, and went into a subdirectory that holds
\* files of the same names
C7_Witness ==
  /\ ScanFinished
  /\ \E k \in BuiltTrees :
       /\ NormPath(built[k].path) = <<>>
       /\ \E i, j \in 1..Len(built[k].listing) :
            built[k].listing[i] = name_git /\ built[k].listing[j] = name_gitignore
       /\ Len(built[k].list) = Len(built[k].listing) - 2
  /\ \E k \in BuiltTrees :
       /\ Len(NormPath(built[k].path)) = 1
       /\ \E j \in 1..Len(built[k].list) : built[k].list[j][2] = name_git

\* C8: a record from_obj decoded without error has len equal to the number
\* of bytes of body_content.
C8_LengthChecked ==
  (op = "from_obj" /\ err = "none")
    => Val(rec.len) = Len(Val(rec.body_content))

empty_tree_bytes == str_tree \o <<SP, 48, NUL>>

\* C9: a tree built from zero entries has the canonical bytes "tree 0\0" and
\* an empty body, and from_obj decodes those bytes without error to a tree
\* with an empty entry list.
C9_EmptyTreeLegal ==
  /\ (op = "tree_from_workspace" /\ arg.list = Some(<<>>) /\ ~IsSet(arg.dirname))
       => /\ err = "none"
          /\ rec.full_content = Some(empty_tree_bytes)
          /\ rec.body_content = Some(<<>>)
  /\ (op = "from_obj" /\ rec.cls = "tree"
        /\ arg.content = Some(Compress(empty_tree_bytes)))
       => /\ err = "none"
          /\ rec.mod_filename_sha1_list = Some(<<>>)

CommitBuilt == op = "commit_from_workspace" /\ err = "none"
GivenParents == IF IsSet(arg.parents) THEN Val(arg.parents) ELSE <<>>
GivenMessage == IF IsSet(arg.message) THEN Val(arg.message) ELSE <<>>

\* the bytes of body from index i on are exactly the lines for parents k.. and
\* then tail
RECURSIVE ParentsThen(_, _, _, _)
ParentsThen(body, i, k, tail) ==
  IF k > Len(GivenParents) THEN From(body, i - 1) = tail
  ELSE LET line == str_parent \o <<SP>> \o GivenParents[k] \o <<LF>>
       IN /\ SubSeq(body, i, i + Len(line) - 1) = line
          /\ ParentsThen(body, i + Len(line), k + 1, tail)

\* C10: the commit body is the tree line, one parent line per given parent in
\* the given order, the author line, the committer line with the author
\* line's timestamp and zone, a blank line, and the message and a newline.
C10_CommitLayout ==
  CommitBuilt =>
    LET body == Val(rec.body_content)
        tree_line == str_tree \o <<SP>> \o built[Len(built)].sha1 \o <<LF>>
        stamp == IntToStr(Val(arg.now)) \o <<SP>> \o Val(arg.zone)
        who == <<SP>> \o author \o <<SP, 60>> \o author_email \o <<62, SP>>
        tail == str_author \o who \o stamp \o <<LF>>
                \o str_committer \o who \o stamp \o <<LF>>
                \o <<LF>> \o GivenMessage \o <<LF>>
    IN /\ StartsWith(body, tree_line)
       /\ ParentsThen(body, Len(tree_line) + 1, 1, tail)

\* C10's case: a commit with two parents and a message was built
C10_Witness == CommitBuilt /\ Len(GivenParents) = 2 /\ IsSet(arg.message)

====
